---- MODULE Spec2Model ----
(***************************************************************************)
(* Model of the dsff dictionary server (go/main.go, go/helpers.go,         *)
(* go/handlers.go): the text normalizer, the search engine getEntries, the  *)
(* loader loadDataFromFile with the process-wide corpus and indexes it     *)
(* fills, and the concept and letter pages.                                *)
(*                                                                         *)
(* A Go string is modelled as a sequence of runes; a rune is written as a  *)
(* one-character TLA+ string, or as an ASCII name where the rune is not    *)
(* ASCII: "agrave" is U+00E0, "Agrave" is U+00C0, "rsquo" is U+2019 (the   *)
(* typographic apostrophe), "hellip" is U+2026 (the ellipsis character),   *)
(* "tab" is U+0009, "Ccedil" is U+00C7 and "ccedil" is U+00E7.  The four search-mode names are compared for equality  *)
(* only and are written in ASCII.  A Go map is modelled as a function on   *)
(* the keys it holds, a map used as a set as the set of its keys.          *)
(*                                                                         *)
(* Specifications:                                                         *)
(*   SpecSearch     calls of getEntries on a loaded corpus;                *)
(*   SpecNormalize  normalizeForSearch on bounded inputs, applied twice;   *)
(*   SpecStrip      removeParenthesesContent on bounded inputs, applied    *)
(*                  twice;                                                 *)
(*   SpecServer     the process from main: the load of the data file, and  *)
(*                  then the requests for concept and letter pages;        *)
(*   SpecSearchPage requests for the search page on a loaded corpus;       *)
(*   SpecWorkers    several requests served at once on a loaded corpus,    *)
(*                  each handler in the steps scan, sort and respond.      *)
(* fn names the function a behaviour exercises; call and ret hold the      *)
(* arguments and the result of the call or request in progress; x0, x1, x2 *)
(* hold an input of a normalizer function, its result, and the result on   *)
(* that result.  pc is the position of the process (boot, serving, halted, *)
(* crashed), source the content of the data file, PhrasesMap and           *)
(* ConceptsByFirstLetter the two indexes built by the load, requests the   *)
(* requests in progress where several are served at once, each with the    *)
(* locals of its handler.                                                  *)
(***************************************************************************)
EXTENDS Integers, Sequences, FiniteSets, TLC

VARIABLES AllEntries, call, ret, fn, applied, x0, x1, x2,
          pc, source, PhrasesMap, ConceptsByFirstLetter, requests

vars == <<AllEntries, call, ret, fn, applied, x0, x1, x2,
          pc, source, PhrasesMap, ConceptsByFirstLetter, requests>>

\* The variables written by main and loadDataFromFile only.
loaded == <<pc, source, PhrasesMap, ConceptsByFirstLetter>>

(***************************************************************************)
(* Bounds of the model.                                                    *)
(***************************************************************************)
MaxNormLen == 4

MaxStripLen == 4

MaxCorpus == 2

MaxPageSize == 3

MaxLoaded == 3

MaxWorkers == 2

IntBits == 5

(***************************************************************************)
(* Runes and strings.                                                      *)
(***************************************************************************)
\* unicode.IsSpace, as strings.Fields uses it.
IsSpace(c) == c \in {" ", "tab"}

\* The classes \p{L} and \p{M} of the Contains pattern: letters and marks.
IsLetterOrMark(c) ==
    c \in {"a", "b", "c", "d", "e", "l", "o", "p", "r", "t", "u",
           "A", "B", "C", "agrave", "Agrave", "ccedil", "Ccedil"}

RECURSIVE SeqsUpTo(_, _)
\* Every string over alphabet S of length at most n.
SeqsUpTo(S, n) ==
    IF n = 0 THEN {<<>>}
    ELSE LET shorter == SeqsUpTo(S, n - 1)
         IN  shorter \cup {Append(s, c) : s \in {t \in shorter : Len(t) = n - 1}, c \in S}

Drop(s, k) == IF k >= Len(s) THEN <<>> ELSE SubSeq(s, k + 1, Len(s))

\* strings.HasPrefix
HasPrefix(s, p) == Len(p) <= Len(s) /\ SubSeq(s, 1, Len(p)) = p

\* strings.HasSuffix
HasSuffix(s, p) == Len(p) <= Len(s) /\ SubSeq(s, Len(s) - Len(p) + 1, Len(s)) = p

RECURSIVE Fields(_)
\* strings.Fields: the maximal runs of non-space runes, in order.
Fields(s) ==
    IF s = <<>> THEN <<>>
    ELSE IF IsSpace(s[1]) THEN Fields(Tail(s))
    ELSE LET stops == {i \in 1..Len(s) : IsSpace(s[i])}
             n == IF stops = {} THEN Len(s)
                  ELSE (CHOOSE i \in stops : \A j \in stops : i <= j) - 1
         IN  <<SubSeq(s, 1, n)>> \o Fields(Drop(s, n))

RECURSIVE Join(_, _)
\* strings.Join
Join(parts, sep) ==
    IF parts = <<>> THEN <<>>
    ELSE IF Len(parts) = 1 THEN parts[1]
    ELSE parts[1] \o sep \o Join(Tail(parts), sep)

RECURSIVE TrimLeft(_, _)
TrimLeft(s, cutset) ==
    IF s # <<>> /\ s[1] \in cutset THEN TrimLeft(Tail(s), cutset) ELSE s

RECURSIVE TrimRight(_, _)
TrimRight(s, cutset) ==
    IF s # <<>> /\ s[Len(s)] \in cutset
    THEN TrimRight(SubSeq(s, 1, Len(s) - 1), cutset) ELSE s

\* strings.Trim: drops the leading and trailing runes that are in cutset.
Trim(s, cutset) == TrimRight(TrimLeft(s, cutset), cutset)

\* strings.TrimSpace
TrimSpace(s) == Trim(s, {" ", "tab"})

RECURSIVE ReplaceAll(_, _, _)
\* strings.ReplaceAll with a non-empty old: left to right, non-overlapping,
\* the replaced text is not scanned again.
ReplaceAll(s, old, new) ==
    IF s = <<>> THEN <<>>
    ELSE IF HasPrefix(s, old) THEN new \o ReplaceAll(Drop(s, Len(old)), old, new)
    ELSE <<s[1]>> \o ReplaceAll(Tail(s), old, new)

(***************************************************************************)
(* Text normalizer.                                                        *)
(***************************************************************************)
\* strings.ToLower on the runes of the model.
ToLowerRune(c) ==
    CASE c = "A" -> "a"
      [] c = "B" -> "b"
      [] c = "C" -> "c"
      [] c = "Agrave" -> "agrave"
      [] c = "Ccedil" -> "ccedil"
      [] OTHER -> c

\* strings.ToUpper on the runes of the model that begin a concept name.
ToUpperRune(c) ==
    CASE c = "a" -> "A"
      [] c = "b" -> "B"
      [] c = "c" -> "C"
      [] c = "agrave" -> "Agrave"
      [] c = "ccedil" -> "Ccedil"
      [] OTHER -> c

ToUpper(s) == [i \in 1..Len(s) |-> ToUpperRune(s[i])]

\* strings.ToLower
ToLower(s) == [i \in 1..Len(s) |-> ToLowerRune(s[i])]

\* unicode.SimpleFold on the runes of the model: the next rune of the case
\* orbit, the rune itself where it has no other case.
SimpleFold(c) ==
    IF ToUpperRune(c) # c THEN ToUpperRune(c) ELSE ToLowerRune(c)

\* strings.EqualFold: rune by rune, equal or in the same case orbit.
EqualFold(s, t) ==
    /\ Len(s) = Len(t)
    /\ \A i \in 1..Len(s) : s[i] = t[i] \/ SimpleFold(s[i]) = t[i]

\* The accent replacer of toLowercaseNoAccents, on the runes of the model.
RemoveAccentRune(c) == IF c = "agrave" THEN "a" ELSE c

toLowercaseNoAccents(input) ==
    [i \in 1..Len(input) |-> RemoveAccentRune(ToLowerRune(input[i]))]

RECURSIVE normalizeSearchReplacer(_)
\* The strings.Replacer of normalizeForSearch: one pass, left to right, the
\* output of a replacement is not scanned again.
normalizeSearchReplacer(s) ==
    IF s = <<>> THEN <<>>
    ELSE IF s[1] = "rsquo" THEN <<"'">> \o normalizeSearchReplacer(Tail(s))
    ELSE IF HasPrefix(s, <<".", ".", ".">>)
         THEN <<"hellip">> \o normalizeSearchReplacer(Drop(s, 3))
    ELSE IF s[1] \in {"(", ")"} THEN normalizeSearchReplacer(Tail(s))
    ELSE <<s[1]>> \o normalizeSearchReplacer(Tail(s))

normalizeForSearch(input) ==
    toLowercaseNoAccents(
        Trim(Join(Fields(normalizeSearchReplacer(input)), <<" ">>), {"-", ",", " "}))

\* The leftmost match of \([^()]*\) (open = "(", close = ")") or of
\* \[[^\[\]]*\] in s, as <<first, last>>, or <<0, 0>> when there is none.
LeftmostSpan(s, open, close) ==
    LET starts == {i \in 1..Len(s) :
                     /\ s[i] = open
                     /\ \E j \in (i + 1)..Len(s) :
                          /\ s[j] = close
                          /\ \A k \in (i + 1)..(j - 1) : s[k] \notin {open, close}}
    IN  IF starts = {} THEN <<0, 0>>
        ELSE LET i == CHOOSE a \in starts : \A b \in starts : a <= b
                 j == CHOOSE a \in (i + 1)..Len(s) :
                        /\ s[a] = close
                        /\ \A k \in (i + 1)..(a - 1) : s[k] # close
             IN  <<i, j>>

\* regexp.MatchString of the span pattern.
SpanMatch(s, open, close) == LeftmostSpan(s, open, close) # <<0, 0>>

RECURSIVE RemoveSpansOnce(_, _, _)
\* regexp.ReplaceAllString(content, ""): one pass over the non-overlapping
\* leftmost matches.
RemoveSpansOnce(s, open, close) ==
    LET m == LeftmostSpan(s, open, close)
    IN  IF m = <<0, 0>> THEN s
        ELSE SubSeq(s, 1, m[1] - 1) \o RemoveSpansOnce(Drop(s, m[2]), open, close)

RECURSIVE RemoveSpansLoop(_, _, _)
\* for regex.MatchString(content) { content = regex.ReplaceAllString(content, "") }
RemoveSpansLoop(s, open, close) ==
    IF SpanMatch(s, open, close)
    THEN RemoveSpansLoop(RemoveSpansOnce(s, open, close), open, close)
    ELSE s

removeParenthesesContentOnePass(input) ==
    TrimSpace(ReplaceAll(
        Join(Fields(RemoveSpansOnce(RemoveSpansOnce(input, "(", ")"), "[", "]")), <<" ">>),
        <<" ", ",", " ">>, <<",", " ">>))

removeParenthesesContent(input) ==
    TrimSpace(ReplaceAll(
        Join(Fields(RemoveSpansLoop(RemoveSpansLoop(input, "(", ")"), "[", "]")), <<" ">>),
        <<" ", ",", " ">>, <<",", " ">>))

(***************************************************************************)
(* Machine integers: Go's int, at the width IntBits, wraps around.         *)
(***************************************************************************)
Pow2(n) == 2 ^ n

MaxInt == Pow2(IntBits - 1) - 1

\* The two's-complement value of x at width IntBits.
WrapInt(x) == ((x + Pow2(IntBits - 1)) % Pow2(IntBits)) - Pow2(IntBits - 1)

Min(a, b) == IF a <= b THEN a ELSE b

(***************************************************************************)
(* The corpus.                                                             *)
(***************************************************************************)
\* An Entry as the export writes it: the two normalized titles are computed
\* from the title.
MkEntry(title, concepte) ==
    [Title |-> title,
     TitleNormalizedWp |-> normalizeForSearch(title),
     TitleNormalizedWpc |-> normalizeForSearch(removeParenthesesContent(title)),
     Concepte |-> concepte,
     AntonimConcepte |-> FALSE,
     AccepcioConcepte |-> <<>>]

\* An entry of a concept with its antonym flag and its numbered-sense label.
MkConceptEntry(title, concepte, antonim, accepcio) ==
    [MkEntry(title, concepte) EXCEPT !.AntonimConcepte = antonim,
                                     !.AccepcioConcepte = accepcio]

Pop == <<"p", "o", "p">>

EntryPool ==
    { MkEntry(Pop, <<"A">>),
      MkEntry(<<"p", "o", "p", "u", "l", "a", "r">>, <<"A">>),
      MkEntry(<<"a", "r", "t", " ", "p", "o", "p">>, <<"B">>),
      MkEntry(<<"p", "o", "p", "-", "a", "r", "t">>, <<"B">>),
      MkEntry(<<"p", "o", "p", " ", "(", "a", ")">>, <<"A">>),
      MkEntry(<<"a", " ", "(", "p", "o", "p", ")">>, <<"B">>),
      MkEntry(<<"a", ",", " ", "b">>, <<"A">>) }

RECURSIVE CorporaOfLen(_)
\* The sequences of n distinct entries of the pool.
CorporaOfLen(n) ==
    IF n = 0 THEN {<<>>}
    ELSE {c \in {Append(d, e) : d \in CorporaOfLen(n - 1), e \in EntryPool} :
            \A i, j \in 1..Len(c) : i # j => c[i] # c[j]}

Corpora == UNION {CorporaOfLen(n) : n \in 0..MaxCorpus}

(***************************************************************************)
(* Search engine: getEntries.                                              *)
(***************************************************************************)
SearchModeConte == "Conte"

SearchModeComencaPer == "Comenca per"

SearchModeAcabaEn == "Acaba en"

SearchModeCoincident == "Coincident"

\* The literal mode names, the empty mode and a mode that is none of them.
Modes == {SearchModeConte, SearchModeComencaPer, SearchModeAcabaEn,
          SearchModeCoincident, "", "Altres"}

Queries == {<<>>, Pop, <<"a">>, <<"p", "o", "p", " ", "a">>}

Pages == (1..(MaxCorpus + 1)) \cup ((MaxInt - 3)..MaxInt)

PageSizes == 1..MaxPageSize

\* Variant of the Contains pattern without the word boundaries.
RegexMatchNoBoundary(query, field) ==
    \E i \in 0..Len(field) :
        i + Len(query) <= Len(field) /\ SubSeq(field, i + 1, i + Len(query)) = query

\* regex.MatchString(field) for (^|[^\p{L}\p{M}])QUERY([^\p{L}\p{M}]|$), QUERY
\* the quoted query: a match starts at some offset i; the first group is the
\* empty match at the start of the text or one rune that is no letter or
\* mark, then the query literally, then the last group is one rune that is
\* no letter or mark or the empty match at the end of the text.
RegexMatch(query, field) ==
    \E i \in 0..Len(field) :
        \E first \in {0, 1} :
            /\ \/ first = 0 /\ i = 0
               \/ first = 1 /\ i < Len(field) /\ ~IsLetterOrMark(field[i + 1])
            /\ LET p == i + first
                   q == p + Len(query)
               IN  /\ q <= Len(field)
                   /\ SubSeq(field, p + 1, q) = query
                   /\ \/ q < Len(field) /\ ~IsLetterOrMark(field[q + 1])
                      \/ q = Len(field)

\* Variant of the filter switch that rejects the empty query first.
MatchRejectEmpty(entry, normalizedQuery, searchMode) ==
    /\ normalizedQuery # <<>>
    /\ CASE searchMode = SearchModeComencaPer ->
               \/ HasPrefix(entry.TitleNormalizedWpc, normalizedQuery)
               \/ HasPrefix(entry.TitleNormalizedWp, normalizedQuery)
         [] searchMode = SearchModeAcabaEn ->
               \/ HasSuffix(entry.TitleNormalizedWpc, normalizedQuery)
               \/ HasSuffix(entry.TitleNormalizedWp, normalizedQuery)
         [] searchMode = SearchModeCoincident ->
               \/ entry.TitleNormalizedWpc = normalizedQuery
               \/ entry.TitleNormalizedWp = normalizedQuery
         [] OTHER ->
               \/ RegexMatch(normalizedQuery, entry.TitleNormalizedWpc)
               \/ /\ entry.TitleNormalizedWpc # entry.TitleNormalizedWp
                  /\ RegexMatch(normalizedQuery, entry.TitleNormalizedWp)

\* The filter switch of getEntries.
Match(entry, normalizedQuery, searchMode) ==
    CASE searchMode = SearchModeComencaPer ->
            \/ HasPrefix(entry.TitleNormalizedWpc, normalizedQuery)
            \/ HasPrefix(entry.TitleNormalizedWp, normalizedQuery)
      [] searchMode = SearchModeAcabaEn ->
            \/ HasSuffix(entry.TitleNormalizedWpc, normalizedQuery)
            \/ HasSuffix(entry.TitleNormalizedWp, normalizedQuery)
      [] searchMode = SearchModeCoincident ->
            \/ entry.TitleNormalizedWpc = normalizedQuery
            \/ entry.TitleNormalizedWp = normalizedQuery
      [] OTHER ->
            \/ RegexMatch(normalizedQuery, entry.TitleNormalizedWpc)
            \/ /\ entry.TitleNormalizedWpc # entry.TitleNormalizedWp
               /\ RegexMatch(normalizedQuery, entry.TitleNormalizedWp)

\* The loop over AllEntries: the matching entries in corpus order.
FilterEntries(entries, normalizedQuery, searchMode) ==
    SelectSeq(entries, LAMBDA e : Match(e, normalizedQuery, searchMode))

\* Primary collation weight of a rune under the Catalan collator: white
\* space, then punctuation, then digits, then letters in alphabetical order.
Weight(c) ==
    CASE c = "tab" -> 1 [] c = " " -> 2 [] c = "_" -> 3 [] c = "-" -> 4
      [] c = "," -> 5 [] c = "." -> 6 [] c = "hellip" -> 7 [] c = "'" -> 8
      [] c = "rsquo" -> 9 [] c = "(" -> 10 [] c = ")" -> 11 [] c = "[" -> 12
      [] c = "]" -> 13 [] c = "1" -> 15 [] c = "2" -> 16
      [] c \in {"a", "A", "agrave", "Agrave"} -> 20
      [] c \in {"b", "B"} -> 21 [] c \in {"c", "C", "ccedil", "Ccedil"} -> 22
      [] c = "d" -> 23 [] c = "e" -> 24
      [] c = "l" -> 25 [] c = "o" -> 26 [] c = "p" -> 27 [] c = "r" -> 28
      [] c = "t" -> 29 [] c = "u" -> 30

\* Secondary weight: the accent of the rune.
AccentWeight(c) == IF c \in {"agrave", "Agrave", "ccedil", "Ccedil"} THEN 1 ELSE 0

\* Tertiary weight: the case of the rune.
CaseWeight(c) == IF c \in {"A", "B", "C", "Agrave", "Ccedil"} THEN 1 ELSE 0

RECURSIVE CompareWeights(_, _)
\* The order of two sort keys of one level: -1, 0 or 1 by the first
\* differing weight, a proper prefix first.
CompareWeights(a, b) ==
    IF a = <<>> /\ b = <<>> THEN 0
    ELSE IF a = <<>> THEN -1
    ELSE IF b = <<>> THEN 1
    ELSE IF a[1] < b[1] THEN -1
    ELSE IF a[1] > b[1] THEN 1
    ELSE CompareWeights(Tail(a), Tail(b))

\* collator.CompareString: the primary keys decide; accents are looked at
\* only where the primary keys are equal, and case only where the accents
\* are equal too.
CompareString(a, b) ==
    LET primary == CompareWeights([i \in 1..Len(a) |-> Weight(a[i])],
                                  [i \in 1..Len(b) |-> Weight(b[i])])
        secondary == CompareWeights([i \in 1..Len(a) |-> AccentWeight(a[i])],
                                    [i \in 1..Len(b) |-> AccentWeight(b[i])])
        tertiary == CompareWeights([i \in 1..Len(a) |-> CaseWeight(a[i])],
                                   [i \in 1..Len(b) |-> CaseWeight(b[i])])
    IN  IF primary # 0 THEN primary
        ELSE IF secondary # 0 THEN secondary
        ELSE tertiary

IsExact(e, normalizedQuery) ==
    e.TitleNormalizedWpc = normalizedQuery \/ e.TitleNormalizedWp = normalizedQuery

\* Variant of the comparator without the promotion of exact matches.
CompareNoPromotion(a, b, normalizedQuery, searchMode) ==
    CompareString(a.TitleNormalizedWpc, b.TitleNormalizedWpc)

\* Variant of the comparator that promotes exact matches in every mode.
CompareAlwaysPromote(a, b, normalizedQuery, searchMode) ==
    IF IsExact(a, normalizedQuery) /\ ~IsExact(b, normalizedQuery)
    THEN -1
    ELSE IF ~IsExact(a, normalizedQuery) /\ IsExact(b, normalizedQuery)
    THEN 1
    ELSE CompareString(a.TitleNormalizedWpc, b.TitleNormalizedWpc)

\* The comparator handed to slices.SortFunc.
CompareEntries(a, b, normalizedQuery, searchMode) ==
    IF /\ searchMode \in {"", SearchModeConte}
       /\ IsExact(a, normalizedQuery) /\ ~IsExact(b, normalizedQuery)
    THEN -1
    ELSE IF /\ searchMode \in {"", SearchModeConte}
            /\ ~IsExact(a, normalizedQuery) /\ IsExact(b, normalizedQuery)
    THEN 1
    ELSE CompareString(a.TitleNormalizedWpc, b.TitleNormalizedWpc)

Orderings(n) ==
    {p \in [1..n -> 1..n] : \A i, j \in 1..n : i # j => p[i] # p[j]}

\* slices.SortFunc(results, cmp): the sort is not stable, so every
\* arrangement of results that is in cmp order is a possible outcome.
SortOutcomes(results, normalizedQuery, searchMode) ==
    LET n == Len(results)
        arranged == {[i \in 1..n |-> results[p[i]]] : p \in Orderings(n)}
    IN  {s \in arranged :
           \A i, j \in 1..n :
              i < j => CompareEntries(s[i], s[j], normalizedQuery, searchMode) <= 0}

\* Variant of the pagination whose pages run one entry into the next page.
PaginateOverlap(results, page, pageSize) ==
    LET resultsCount == Len(results)
        start == WrapInt((page - 1) * pageSize)
        end == Min(WrapInt(start + pageSize + 1), resultsCount)
    IN  IF resultsCount = 0 \/ start >= resultsCount
        THEN [outcome |-> "ok", entries |-> <<>>, total |-> resultsCount]
        ELSE IF start < 0 \/ end < start
        THEN [outcome |-> "panic", entries |-> <<>>, total |-> 0]
        ELSE [outcome |-> "ok", entries |-> SubSeq(results, start + 1, end),
              total |-> resultsCount]

\* The pagination of getEntries on the sorted results. A slice expression
\* with a negative or decreasing index panics.
Paginate(results, page, pageSize) ==
    LET resultsCount == Len(results)
        start == WrapInt((page - 1) * pageSize)
        end == Min(WrapInt(start + pageSize), resultsCount)
    IN  IF resultsCount = 0
        THEN [outcome |-> "ok", entries |-> <<>>, total |-> resultsCount]
        ELSE IF start >= resultsCount
        THEN [outcome |-> "ok", entries |-> <<>>, total |-> resultsCount]
        ELSE IF start < 0 \/ end < start
        THEN [outcome |-> "panic", entries |-> <<>>, total |-> 0]
        ELSE [outcome |-> "ok", entries |-> SubSeq(results, start + 1, end),
              total |-> resultsCount]

(***************************************************************************)
(* Loader: loadDataFromFile.                                               *)
(***************************************************************************)
\* slices.Contains
Contains(list, v) == \E i \in 1..Len(list) : list[i] = v

\* m[key] of a map of slices: the nil slice where the key is absent.
MapGet(m, key) == IF key \in DOMAIN m THEN m[key] ELSE <<>>

\* m[key] = list
MapPut(m, key, list) ==
    [k \in DOMAIN m \cup {key} |-> IF k = key THEN list ELSE m[k]]

\* Variant of the key: the stored normalized title of the entry.
PhraseKeyNormalized(entry) == entry.TitleNormalizedWpc

\* The key under which the loop body files an entry in PhrasesMap.
PhraseKey(entry) == removeParenthesesContent(entry.Title)

\* The key of ConceptsByFirstLetter for a non-empty concept name.
LetterKey(concepte) == ToUpper(toLowercaseNoAccents(<<concepte[1]>>))

\* Variant of the guarded append that appends every time.
AppendConceptAlways(list, concepte) == Append(list, concepte)

\* if !slices.Contains(list, concepte) { list = append(list, concepte) }
AppendConcept(list, concepte) ==
    IF Contains(list, concepte) THEN list ELSE Append(list, concepte)

RECURSIVE LoadLoop(_, _, _)
\* The loop of loadDataFromFile over the entries still to visit, from the
\* maps built so far. []rune(entry.Concepte)[0] panics on the empty name,
\* after the entry's phrase key has been stored.
LoadLoop(entries, phrases, index) ==
    IF entries = <<>>
    THEN [outcome |-> "ok", PhrasesMap |-> phrases, ConceptsByFirstLetter |-> index]
    ELSE LET entry == Head(entries)
             stored == phrases \cup {PhraseKey(entry)}
         IN  IF entry.Concepte = <<>>
             THEN [outcome |-> "panic", PhrasesMap |-> stored,
                   ConceptsByFirstLetter |-> index]
             ELSE LET key == LetterKey(entry.Concepte)
                      list == AppendConcept(MapGet(index, key), entry.Concepte)
                  IN  LoadLoop(Tail(entries), stored, MapPut(index, key, list))

\* slices.SortFunc(conceptList, collator.CompareString): every arrangement
\* of the list that is in collation order.
SortStringsOutcomes(list) ==
    LET n == Len(list)
        arranged == {[i \in 1..n |-> list[p[i]]] : p \in Orderings(n)}
    IN  {s \in arranged :
           \A i, j \in 1..n : i < j => CompareString(s[i], s[j]) <= 0}

\* Variant of the sorting loop that leaves every stored list as it is.
SortIndexNone(index) == {index}

\* The loop that sorts each list of the index. The loop variable is a copy
\* of the slice header and shares the backing array of the stored slice, so
\* the sort in place is a sort of the stored list.
SortIndexOutcomes(index) ==
    {sorted \in [DOMAIN index -> UNION {SortStringsOutcomes(index[k]) : k \in DOMAIN index}] :
        \A k \in DOMAIN index : sorted[k] \in SortStringsOutcomes(index[k])}

\* The possible results of loadDataFromFile on a data file: the error value
\* with what Decode left in AllEntries, a panic inside the loop, or nil with
\* the three structures filled.
loadDataFromFile(file) ==
    IF file.kind # "ok"
    THEN {[outcome |-> "error", AllEntries |-> file.entries,
           PhrasesMap |-> {}, ConceptsByFirstLetter |-> <<>>]}
    ELSE LET built == LoadLoop(file.entries, {}, <<>>)
         IN  IF built.outcome = "panic"
             THEN {[outcome |-> "panic", AllEntries |-> file.entries,
                    PhrasesMap |-> built.PhrasesMap,
                    ConceptsByFirstLetter |-> built.ConceptsByFirstLetter]}
             ELSE {[outcome |-> "ok", AllEntries |-> file.entries,
                    PhrasesMap |-> built.PhrasesMap,
                    ConceptsByFirstLetter |-> sorted] :
                      sorted \in SortIndexOutcomes(built.ConceptsByFirstLetter)}

\* phraseExists
phraseExists(phrase) == removeParenthesesContent(phrase) \in PhrasesMap

NoCall == [op |-> "none"]

\* One call getEntries(normalizedQuery, searchMode, page, pageSize) on the
\* loaded corpus. ret.ranked is the local slice results after the sort.
getEntries(normalizedQuery, searchMode, page, pageSize) ==
    /\ fn = "getEntries"
    /\ call = NoCall
    /\ \E sorted \in SortOutcomes(FilterEntries(AllEntries, normalizedQuery, searchMode),
                                  normalizedQuery, searchMode) :
         /\ call' = [op |-> "getEntries", normalizedQuery |-> normalizedQuery,
                     searchMode |-> searchMode, page |-> page, pageSize |-> pageSize]
         /\ ret' = [ranked |-> sorted] @@ Paginate(sorted, page, pageSize)
    /\ UNCHANGED <<AllEntries, fn, applied, x0, x1, x2>>
    /\ UNCHANGED loaded
    /\ UNCHANGED requests

\* The process after a load that returned nil, on a corpus of the pool.
InitSearch ==
    /\ source \in {[kind |-> "ok", entries |-> c] : c \in Corpora}
    /\ pc = "serving"
    /\ \E r \in loadDataFromFile(source) :
          /\ AllEntries = r.AllEntries
          /\ PhrasesMap = r.PhrasesMap
          /\ ConceptsByFirstLetter = r.ConceptsByFirstLetter
    /\ requests = <<>>
    /\ call = NoCall
    /\ ret = NoCall
    /\ fn = "getEntries"
    /\ applied = 0
    /\ x0 = <<>>
    /\ x1 = <<>>
    /\ x2 = <<>>

\* The caller has consumed the result; the next call can be made.
Return ==
    /\ fn = "getEntries"
    /\ call # NoCall
    /\ call' = NoCall
    /\ ret' = NoCall
    /\ UNCHANGED <<AllEntries, fn, applied, x0, x1, x2>>
    /\ UNCHANGED loaded
    /\ UNCHANGED requests

NextSearch ==
    \/ \E q \in Queries, m \in Modes, page \in Pages, pageSize \in PageSizes :
          getEntries(q, m, page, pageSize)
    \/ Return

SpecSearch == InitSearch /\ [][NextSearch]_vars

(***************************************************************************)
(* Properties of getEntries.                                               *)
(***************************************************************************)
IsGetEntries == call.op = "getEntries"

\* The number of corpus entries that pass the filter of the call's mode.
TrueTotal ==
    Cardinality({i \in 1..Len(AllEntries) :
                   Match(AllEntries[i], call.normalizedQuery, call.searchMode)})

\* s[lo:hi] with unbounded integers; empty when lo >= hi.
MathSlice(s, lo, hi) == IF lo >= hi THEN <<>> ELSE SubSeq(s, lo + 1, hi)

\* C1: a call with a page such that (page-1)*pageSize >= total returns an
\* empty page together with the true total, and does not fail.
C1_OutOfRangePageIsEmpty ==
    (IsGetEntries /\ (call.page - 1) * call.pageSize >= TrueTotal)
        => /\ ret.outcome = "ok"
           /\ ret.entries = <<>>
           /\ ret.total = TrueTotal

\* C2: the returned page is the slice [(page-1)*pageSize : min(page*pageSize,
\* total)] of the ranked list, has at most pageSize entries, and total is the
\* number of corpus entries that pass the filter.
C2_PageIsSliceOfRanked ==
    IsGetEntries
        => /\ ret.outcome = "ok"
           /\ ret.entries = MathSlice(ret.ranked, (call.page - 1) * call.pageSize,
                                      Min(call.page * call.pageSize, TrueTotal))
           /\ Len(ret.entries) <= call.pageSize
           /\ ret.total = TrueTotal

\* C3: for every page >= 1 and pageSize >= 1 of the machine integers and
\* every non-empty query, getEntries returns a page of 0..pageSize entries
\* and does not panic.
C3_NeverPanics ==
    (IsGetEntries /\ call.normalizedQuery # <<>>)
        => /\ ret.outcome = "ok"
           /\ Len(ret.entries) <= call.pageSize

\* The query occurs in field as a substring that starts at the beginning of
\* the field or right after a rune that is no letter or mark, and ends at
\* the end of the field or right before a rune that is no letter or mark.
OccursAsWord(query, field) ==
    \E k \in 1..Len(field) :
        LET last == k + Len(query) - 1
        IN  /\ last <= Len(field)
            /\ \A d \in 1..Len(query) : field[k + d - 1] = query[d]
            /\ k = 1 \/ ~IsLetterOrMark(field[k - 1])
            /\ last = Len(field) \/ ~IsLetterOrMark(field[last + 1])

InRanked(e) == \E k \in 1..Len(ret.ranked) : ret.ranked[k] = e

\* C4: in Contains (default) mode an entry matches a non-empty query iff the
\* query occurs as a whole word in one of its two normalized titles.
C4_ContainsMatchesWholeWords ==
    (IsGetEntries /\ call.searchMode \in {"", SearchModeConte}
                  /\ call.normalizedQuery # <<>>)
        => \A i \in 1..Len(AllEntries) :
              InRanked(AllEntries[i])
                  <=> \/ OccursAsWord(call.normalizedQuery, AllEntries[i].TitleNormalizedWpc)
                      \/ OccursAsWord(call.normalizedQuery, AllEntries[i].TitleNormalizedWp)

\* C4 happens: "pop" is searched in Contains mode, "popular" is in the
\* corpus and is no match, "pop-art" is a match.
C4_Witness ==
    /\ IsGetEntries
    /\ call.searchMode = SearchModeConte
    /\ call.normalizedQuery = Pop
    /\ \E i \in 1..Len(AllEntries) :
          /\ AllEntries[i].TitleNormalizedWpc = <<"p", "o", "p", "u", "l", "a", "r">>
          /\ ~InRanked(AllEntries[i])
    /\ \E i \in 1..Len(AllEntries) :
          /\ AllEntries[i].TitleNormalizedWpc = <<"p", "o", "p", "-", "a", "r", "t">>
          /\ InRanked(AllEntries[i])

\* C5: in default/Contains mode every exact match is ranked before every
\* match that is not exact.
C5_ExactMatchesFirst ==
    (IsGetEntries /\ call.searchMode \in {"", SearchModeConte})
        => \A i, j \in 1..Len(ret.ranked) :
              (IsExact(ret.ranked[j], call.normalizedQuery)
                  /\ ~IsExact(ret.ranked[i], call.normalizedQuery)) => j < i

\* C5 happens: an exact match is ranked before a match that collates
\* before it.
C5_Witness ==
    /\ IsGetEntries
    /\ call.searchMode \in {"", SearchModeConte}
    /\ Len(ret.ranked) >= 2
    /\ IsExact(ret.ranked[1], call.normalizedQuery)
    /\ ~IsExact(ret.ranked[2], call.normalizedQuery)
    /\ CompareString(ret.ranked[1].TitleNormalizedWpc,
                     ret.ranked[2].TitleNormalizedWpc) = 1

\* C6: two matches with the same TitleNormalizedWpc (and alike in being
\* exact or not) and different TitleNormalizedWp are ranked in the collation
\* order of TitleNormalizedWp.
C6_TieBrokenByWp ==
    IsGetEntries
        => \A i, j \in 1..Len(ret.ranked) :
              (/\ i < j
               /\ ret.ranked[i].TitleNormalizedWpc = ret.ranked[j].TitleNormalizedWpc
               /\ ret.ranked[i].TitleNormalizedWp # ret.ranked[j].TitleNormalizedWp
               /\ IsExact(ret.ranked[i], call.normalizedQuery)
                     <=> IsExact(ret.ranked[j], call.normalizedQuery))
                  => CompareString(ret.ranked[i].TitleNormalizedWp,
                                   ret.ranked[j].TitleNormalizedWp) = -1

\* What a call can return, the ranked list left out.
Returned(r) == [outcome |-> r.outcome, entries |-> r.entries, total |-> r.total]

\* C7: a mode that is empty or none of the four mode names returns what
\* Contains mode can return for the same corpus, query, page and pageSize.
C7_OtherModesAreContains ==
    (IsGetEntries /\ call.searchMode \notin {SearchModeConte, SearchModeComencaPer,
                                             SearchModeAcabaEn, SearchModeCoincident})
        => \E s \in SortOutcomes(
                       FilterEntries(AllEntries, call.normalizedQuery, SearchModeConte),
                       call.normalizedQuery, SearchModeConte) :
              Returned(ret) = Paginate(s, call.page, call.pageSize)

\* C8, as the specification states it: the empty query matches nothing.
C8_EmptyQueryMatchesNothing ==
    (IsGetEntries /\ call.normalizedQuery = <<>>)
        => /\ ret.outcome = "ok"
           /\ ret.entries = <<>>
           /\ ret.total = 0

\* The pattern built from the empty query, (^|[^\p{L}\p{M}])([^\p{L}\p{M}]|$),
\* matches a field that is empty, begins or ends with a rune that is no
\* letter or mark, or has two such runes in a row.
EmptyPatternHits(field) ==
    \/ field = <<>>
    \/ field # <<>> /\ ~IsLetterOrMark(field[1])
    \/ field # <<>> /\ ~IsLetterOrMark(field[Len(field)])
    \/ \E k \in 1..(Len(field) - 1) :
          ~IsLetterOrMark(field[k]) /\ ~IsLetterOrMark(field[k + 1])

\* C8, amended: getEntries does not special-case the empty query. With it,
\* StartsWith and EndsWith match every entry, ExactMatch matches the entries
\* with an empty normalized title, and Contains matches the entries one of
\* whose normalized titles the empty pattern hits.
C8_EmptyQueryByMode ==
    (IsGetEntries /\ call.normalizedQuery = <<>>)
        => Len(ret.ranked) =
              Cardinality({i \in 1..Len(AllEntries) :
                 CASE call.searchMode \in {SearchModeComencaPer, SearchModeAcabaEn} -> TRUE
                   [] call.searchMode = SearchModeCoincident ->
                        \/ AllEntries[i].TitleNormalizedWpc = <<>>
                        \/ AllEntries[i].TitleNormalizedWp = <<>>
                   [] OTHER ->
                        \/ EmptyPatternHits(AllEntries[i].TitleNormalizedWpc)
                        \/ EmptyPatternHits(AllEntries[i].TitleNormalizedWp)})

\* C8 happens: the empty query in StartsWith mode returns the whole of a
\* non-empty corpus.
C8_Witness ==
    /\ IsGetEntries
    /\ call.normalizedQuery = <<>>
    /\ call.searchMode = SearchModeComencaPer
    /\ Len(AllEntries) >= 2
    /\ ret.outcome = "ok"
    /\ ret.total = Len(AllEntries)
    /\ ret.entries # <<>>

(***************************************************************************)
(* The normalizer functions applied to bounded inputs, and applied again   *)
(* to their own output.                                                    *)
(***************************************************************************)
NormAlphabet == {".", "(", ")", " ", "-", ",", "rsquo", "Agrave"}

NormInputs == SeqsUpTo(NormAlphabet, MaxNormLen)

StripAlphabet == {"(", ")", "[", "]", " ", "tab", ",", "a"}

\* "a (b (c)) d [e]"
StripExample ==
    <<"a", " ", "(", "b", " ", "(", "c", ")", ")", " ", "d", " ", "[", "e", "]">>

\* "a , , b": two commas, each with a space before it.
StripCommas == <<"a", " ", ",", " ", ",", " ", "b">>

StripInputs == SeqsUpTo(StripAlphabet, MaxStripLen) \cup {StripExample, StripCommas}

\* No data file is read: the corpus and the indexes are empty.
NoSource == [kind |-> "none", entries |-> <<>>]

InitFn(name, inputs) ==
    /\ pc = "none"
    /\ requests = <<>>
    /\ source = NoSource
    /\ PhrasesMap = {}
    /\ ConceptsByFirstLetter = <<>>
    /\ AllEntries = <<>>
    /\ call = NoCall
    /\ ret = NoCall
    /\ fn = name
    /\ applied = 0
    /\ x0 \in inputs
    /\ x1 = <<>>
    /\ x2 = <<>>

\* x1 = normalizeForSearch(x0)
NormalizeInput ==
    /\ fn = "normalizeForSearch"
    /\ applied = 0
    /\ x1' = normalizeForSearch(x0)
    /\ applied' = 1
    /\ UNCHANGED <<AllEntries, call, ret, fn, x0, x2>>
    /\ UNCHANGED loaded
    /\ UNCHANGED requests

\* x2 = normalizeForSearch(x1)
NormalizeOutput ==
    /\ fn = "normalizeForSearch"
    /\ applied = 1
    /\ x2' = normalizeForSearch(x1)
    /\ applied' = 2
    /\ UNCHANGED <<AllEntries, call, ret, fn, x0, x1>>
    /\ UNCHANGED loaded
    /\ UNCHANGED requests

InitNormalize == InitFn("normalizeForSearch", NormInputs)

NextNormalize == NormalizeInput \/ NormalizeOutput

SpecNormalize == InitNormalize /\ [][NextNormalize]_vars

\* x1 = removeParenthesesContent(x0)
StripInput ==
    /\ fn = "removeParenthesesContent"
    /\ applied = 0
    /\ x1' = removeParenthesesContent(x0)
    /\ applied' = 1
    /\ UNCHANGED <<AllEntries, call, ret, fn, x0, x2>>
    /\ UNCHANGED loaded
    /\ UNCHANGED requests

\* x2 = removeParenthesesContent(x1)
StripOutput ==
    /\ fn = "removeParenthesesContent"
    /\ applied = 1
    /\ x2' = removeParenthesesContent(x1)
    /\ applied' = 2
    /\ UNCHANGED <<AllEntries, call, ret, fn, x0, x1>>
    /\ UNCHANGED loaded
    /\ UNCHANGED requests

InitStrip == InitFn("removeParenthesesContent", StripInputs)

NextStrip == StripInput \/ StripOutput

SpecStrip == InitStrip /\ [][NextStrip]_vars

\* C9: normalizeForSearch(normalizeForSearch(x)) = normalizeForSearch(x).
C9_NormalizeIdempotent ==
    (fn = "normalizeForSearch" /\ applied = 2) => x2 = x1

\* An open rune that is followed, anywhere later, by its close rune.
HasPair(s, open, close) ==
    \E i, j \in 1..Len(s) : i < j /\ s[i] = open /\ s[j] = close

\* C10: the output of removeParenthesesContent has no "(" followed later by
\* ")" and no "[" followed later by "]", no white space at either end and no
\* two white-space runes in a row; "a (b (c)) d [e]" yields "a d".
C10_StripRemovesEverySpan ==
    (fn = "removeParenthesesContent" /\ applied >= 1)
        => /\ ~HasPair(x1, "(", ")")
           /\ ~HasPair(x1, "[", "]")
           /\ x1 # <<>> => ~IsSpace(x1[1]) /\ ~IsSpace(x1[Len(x1)])
           /\ \A k \in 1..(Len(x1) - 1) : ~(IsSpace(x1[k]) /\ IsSpace(x1[k + 1]))
           /\ x0 = StripExample => x1 = <<"a", " ", "d">>

\* C10 happens: the nested example has been stripped to "a d".
C10_Witness ==
    /\ fn = "removeParenthesesContent"
    /\ applied >= 1
    /\ x0 = StripExample
    /\ x1 = <<"a", " ", "d">>

\* C11: removeParenthesesContent is idempotent: applying it to its own output
\* returns that output unchanged, for every input, strings with several
\* commas separated by spaces included.
C11_StripIdempotent ==
    (fn = "removeParenthesesContent" /\ applied = 2) => x2 = x1

(***************************************************************************)
(* The process: main loads the data file once, then requests for concept   *)
(* and letter pages are served from the loaded structures.                 *)
(***************************************************************************)
\* "A B"
ConceptAB == <<"A", " ", "B">>

\* "ÀB", filed under the letter A.
ConceptAgraveB == <<"Agrave", "B">>

\* "A  B", with two spaces.
ConceptASpacesB == <<"A", " ", " ", "B">>

\* "ÇA"
ConceptCcedilA == <<"Ccedil", "A">>

\* Entries a data file can hold: a concept with two senses, an antonym and
\* two entries of equal sort keys, a concept with an accented first letter,
\* a title with an upper-case letter, an entry without concept name, an
\* entry whose stored normalized title is not the one computed from its
\* title, a concept name with two spaces in a row and one that begins with
\* a c with cedilla.
LoadPool ==
    { MkConceptEntry(Pop, ConceptAB, FALSE, <<>>),
      MkConceptEntry(<<"p", "o", "p", " ", "(", "a", ")">>, ConceptAB, FALSE, <<>>),
      MkConceptEntry(<<"a", "r", "t">>, ConceptAB, TRUE, <<"1", ".">>),
      MkConceptEntry(<<"u">>, ConceptAB, FALSE, <<"1", ".">>),
      MkConceptEntry(<<"b">>, ConceptAB, FALSE, <<"2", ".">>),
      MkConceptEntry(<<"A", "r", "t">>, ConceptAgraveB, FALSE, <<>>),
      MkConceptEntry(<<"a">>, <<"B">>, FALSE, <<>>),
      MkConceptEntry(<<"a", ",", " ", "b">>, <<>>, FALSE, <<>>),
      [MkEntry(<<"a", "r", "t">>, <<"B">>) EXCEPT !.TitleNormalizedWpc = <<"b">>],
      MkEntry(<<"b">>, ConceptASpacesB),
      MkEntry(<<"u">>, ConceptCcedilA) }

RECURSIVE LoadedOfLen(_)
\* The sequences of n distinct entries of the pool.
LoadedOfLen(n) ==
    IF n = 0 THEN {<<>>}
    ELSE {c \in {Append(d, e) : d \in LoadedOfLen(n - 1), e \in LoadPool} :
            \A i, j \in 1..Len(c) : i # j => c[i] # c[j]}

\* The data file: it cannot be opened, it is no gzip stream, Decode fails
\* and leaves some entries in AllEntries, or it decodes to an array.
Sources ==
    {[kind |-> k, entries |-> <<>>] : k \in {"missing", "notgzip"}}
    \cup {[kind |-> k, entries |-> c] :
            k \in {"badjson", "ok"},
            c \in UNION {LoadedOfLen(n) : n \in 0..MaxLoaded}}

\* Values of the path parameter of a concept page.
Slugs ==
    { <<"a", "_", "b">>, <<"A", "_", "B">>, <<"a", " ", "b">>, <<"a", "b">>,
      <<"agrave", "b">>, <<"b">>, <<"c">>, <<>> }

\* Values of the path parameter of a letter page.
Letters ==
    { <<"A">>, <<"B">>, <<"C">>, <<"a">>, <<"Agrave">>, <<"Ccedil">>,
      <<"A", "B">>, <<>> }

\* Where main goes after loadDataFromFile: on after nil, log.Fatalf exits
\* the process after an error, a panic ends it.
AfterLoad(outcome) ==
    CASE outcome = "ok" -> "serving"
      [] outcome = "error" -> "halted"
      [] outcome = "panic" -> "crashed"

\* main up to ListenAndServe.
main ==
    /\ fn = "main"
    /\ pc = "boot"
    /\ \E r \in loadDataFromFile(source) :
          /\ AllEntries' = r.AllEntries
          /\ PhrasesMap' = r.PhrasesMap
          /\ ConceptsByFirstLetter' = r.ConceptsByFirstLetter
          /\ pc' = AfterLoad(r.outcome)
    /\ UNCHANGED <<call, ret, fn, applied, x0, x1, x2, source, requests>>

\* Variant of the scan that compares the names as they are written.
getEntriesByConceptSlugExact(conceptSlug) ==
    SelectSeq(AllEntries, LAMBDA entry : entry.Concepte = conceptSlug)

getEntriesByConceptSlug(conceptSlug) ==
    LET conceptToMatch == ReplaceAll(conceptSlug, <<"_">>, <<" ">>)
    IN  SelectSeq(AllEntries, LAMBDA entry : EqualFold(entry.Concepte, conceptToMatch))

\* Variant of the comparator without the rule for antonyms.
CompareConceptNoAntonym(a, b) ==
    IF CompareString(a.AccepcioConcepte, b.AccepcioConcepte) # 0
    THEN CompareString(a.AccepcioConcepte, b.AccepcioConcepte)
    ELSE CompareString(a.TitleNormalizedWpc, b.TitleNormalizedWpc)

\* Variant of the comparator without the rule for sense labels.
CompareConceptNoLabel(a, b) ==
    IF a.AntonimConcepte # b.AntonimConcepte
    THEN IF a.AntonimConcepte THEN 1 ELSE -1
    ELSE CompareString(a.TitleNormalizedWpc, b.TitleNormalizedWpc)

\* The comparator conceptHandler hands to slices.SortFunc.
CompareConceptEntries(a, b) ==
    IF CompareString(a.AccepcioConcepte, b.AccepcioConcepte) # 0
    THEN CompareString(a.AccepcioConcepte, b.AccepcioConcepte)
    ELSE IF a.AntonimConcepte # b.AntonimConcepte
    THEN IF a.AntonimConcepte THEN 1 ELSE -1
    ELSE CompareString(a.TitleNormalizedWpc, b.TitleNormalizedWpc)

\* slices.SortFunc(entries, cmp) in conceptHandler: the sort is not stable,
\* so every arrangement of entries that is in cmp order is a possible outcome.
ConceptSortOutcomes(entries) ==
    LET n == Len(entries)
        arranged == {[i \in 1..n |-> entries[p[i]]] : p \in Orderings(n)}
    IN  {s \in arranged :
           \A i, j \in 1..n : i < j => CompareConceptEntries(s[i], s[j]) <= 0}

\* One request for /concepte/{concept}. ret.records is the result of
\* getEntriesByConceptSlug, ret.entries the slice after the sort.
conceptHandler(concept) ==
    /\ fn = "main"
    /\ pc = "serving"
    /\ call = NoCall
    /\ call' = [op |-> "conceptHandler", concept |-> concept]
    /\ LET records == getEntriesByConceptSlug(concept)
       IN  IF Len(records) = 0
           THEN ret' = [status |-> 404, records |-> records, entries |-> records]
           ELSE \E sorted \in ConceptSortOutcomes(records) :
                   ret' = [status |-> 200, records |-> records, entries |-> sorted]
    /\ UNCHANGED <<AllEntries, fn, applied, x0, x1, x2>>
    /\ UNCHANGED loaded
    /\ UNCHANGED requests

\* len(s) of a Go string: its length in bytes.
ByteLen(s) ==
    Len(s) + Cardinality({i \in 1..Len(s) :
                            s[i] \in {"agrave", "Agrave", "ccedil", "Ccedil"}})

\* getConceptSlug: lower case, the fields joined by underscores.
getConceptSlug(concept) == Join(Fields(ToLower(concept)), <<"_">>)

\* renderConceptsByLetter: the path parameters of the links of the list, one
\* for each concept, in the order of the list.
renderConceptsByLetter(concepts) ==
    [k \in 1..Len(concepts) |-> getConceptSlug(concepts[k])]

\* The letters 'A'..'Z' among the runes of the model.
UpperCaseLetters == {"A", "B", "C"}

\* One request for /lletra/{letter}. ret.concepts is the list handed to
\* renderConceptsByLetter, ret.links the path parameters of its links.
letterHandler(letter) ==
    /\ fn = "main"
    /\ pc = "serving"
    /\ call = NoCall
    /\ call' = [op |-> "letterHandler", letter |-> letter]
    /\ IF ByteLen(letter) # 1 \/ letter[1] \notin UpperCaseLetters
       THEN ret' = [status |-> 404, concepts |-> <<>>, links |-> <<>>]
       ELSE IF Len(MapGet(ConceptsByFirstLetter, letter)) = 0
       THEN ret' = [status |-> 404, concepts |-> <<>>, links |-> <<>>]
       ELSE ret' = [status |-> 200,
                    concepts |-> MapGet(ConceptsByFirstLetter, letter),
                    links |-> renderConceptsByLetter(
                                  MapGet(ConceptsByFirstLetter, letter))]
    /\ UNCHANGED <<AllEntries, fn, applied, x0, x1, x2>>
    /\ UNCHANGED loaded
    /\ UNCHANGED requests

\* The response has been written; the next request can be served.
Respond ==
    /\ fn = "main"
    /\ call # NoCall
    /\ call' = NoCall
    /\ ret' = NoCall
    /\ UNCHANGED <<AllEntries, fn, applied, x0, x1, x2>>
    /\ UNCHANGED loaded
    /\ UNCHANGED requests

InitServer ==
    /\ pc = "boot"
    /\ source \in Sources
    /\ AllEntries = <<>>
    /\ PhrasesMap = {}
    /\ ConceptsByFirstLetter = <<>>
    /\ requests = <<>>
    /\ call = NoCall
    /\ ret = NoCall
    /\ fn = "main"
    /\ applied = 0
    /\ x0 = <<>>
    /\ x1 = <<>>
    /\ x2 = <<>>

NextServer ==
    \/ main
    \/ \E concept \in Slugs : conceptHandler(concept)
    \/ \E letter \in Letters : letterHandler(letter)
    \/ Respond

SpecServer == InitServer /\ [][NextServer]_vars

\* C12: getEntriesByConceptSlug returns exactly the entries of the corpus
\* whose concept name equals, letter case aside, the slug with every "_"
\* replaced by a space, in corpus order and each once; when there is none
\* the result is the empty sequence and the page is the not-found page.
C12_ConceptScanIsExact ==
    call.op = "conceptHandler"
        => LET target == [i \in 1..Len(call.concept) |->
                            IF call.concept[i] = "_" THEN " " ELSE call.concept[i]]
               lower(s) == [i \in 1..Len(s) |-> ToLowerRune(s[i])]
               hits == {i \in 1..Len(AllEntries) :
                          lower(AllEntries[i].Concepte) = lower(target)}
           IN  /\ Len(ret.records) = Cardinality(hits)
               /\ \A i \in hits : Contains(ret.records, AllEntries[i])
               /\ \A k \in 1..Len(ret.records) :
                     \E i \in hits : ret.records[k] = AllEntries[i]
               /\ \A k, l \in 1..Len(ret.records) :
                     k < l => \E i, j \in hits :
                                 /\ i < j
                                 /\ ret.records[k] = AllEntries[i]
                                 /\ ret.records[l] = AllEntries[j]
               /\ hits = {} => ret.records = <<>> /\ ret.status = 404

\* C12 happens: the slug "a_b" has found the entries of concept "A B" in a
\* corpus that holds an entry of another concept too.
C12_Witness ==
    /\ call.op = "conceptHandler"
    /\ call.concept = <<"a", "_", "b">>
    /\ Len(ret.records) = 2
    /\ Len(AllEntries) = 3
    /\ \A k \in 1..Len(ret.records) : ret.records[k].Concepte = ConceptAB

\* A concept page has been rendered from the sorted entries.
IsConceptPage == call.op = "conceptHandler" /\ ret.status = 200

\* C13 as stated: in the sorted list of a concept page every antonym entry
\* comes after every non-antonym entry, whatever their sense labels and
\* titles.
C13_AntonymsAfterAll ==
    IsConceptPage
        => \A i, j \in 1..Len(ret.entries) :
              (ret.entries[i].AntonimConcepte /\ ~ret.entries[j].AntonimConcepte)
                  => j < i

\* C13: in the sorted list of a concept page every antonym entry comes after
\* every non-antonym entry of the same sense label, whatever their titles;
\* the sense label is compared before the antonym flag.
C13_AntonymsAfterSameLabel ==
    IsConceptPage
        => \A i, j \in 1..Len(ret.entries) :
              (/\ ret.entries[i].AntonimConcepte
               /\ ~ret.entries[j].AntonimConcepte
               /\ ret.entries[i].AccepcioConcepte = ret.entries[j].AccepcioConcepte)
                  => j < i

\* C13 happens: the antonym "art" of sense "1." is listed after the entry
\* "u" of the same sense, against the order of their titles.
C13_Witness ==
    /\ IsConceptPage
    /\ \E i, j \in 1..Len(ret.entries) :
          /\ j < i
          /\ ret.entries[i].AntonimConcepte
          /\ ~ret.entries[j].AntonimConcepte
          /\ ret.entries[i].AccepcioConcepte = ret.entries[j].AccepcioConcepte
          /\ CompareString(ret.entries[i].TitleNormalizedWpc,
                           ret.entries[j].TitleNormalizedWpc) < 0

\* The place of a sense label among "", "1." and "2.".
LabelRank(accepcio) ==
    CASE accepcio = <<>> -> 0
      [] accepcio = <<"1", ".">> -> 1
      [] accepcio = <<"2", ".">> -> 2

PositionIn(entries, e) == CHOOSE k \in 1..Len(entries) : entries[k] = e

\* C15: two entries of a concept page that the comparator cannot tell apart
\* are listed in their corpus order.
C15_SortIsStable ==
    IsConceptPage
        => \A i, j \in 1..Len(ret.entries) :
              (i < j /\ CompareConceptEntries(ret.entries[i], ret.entries[j]) = 0)
                  => PositionIn(ret.records, ret.entries[i])
                        < PositionIn(ret.records, ret.entries[j])

\* The load has returned nil and the process serves requests.
Serving == fn = "main" /\ pc = "serving"

\* The letter a concept name is filed under: its first rune without accent,
\* in upper case. The cedilla is not one of the accents that are removed.
InitialOf(concepte) ==
    CASE concepte[1] \in {"a", "A", "agrave", "Agrave"} -> <<"A">>
      [] concepte[1] \in {"b", "B"} -> <<"B">>
      [] concepte[1] \in {"c", "C"} -> <<"C">>
      [] concepte[1] \in {"ccedil", "Ccedil"} -> <<"Ccedil">>

\* The number of places of a list that hold v.
Occurrences(list, v) == Cardinality({k \in 1..Len(list) : list[k] = v})

\* C16: after a successful load the concept name of every entry is exactly
\* once in the list of its initial, and every name in a list of the index is
\* once there, is the concept name of some entry and has the list's letter
\* as its initial.
C16_LetterIndexIsExact ==
    Serving
        => /\ \A i \in 1..Len(AllEntries) :
                LET concepte == AllEntries[i].Concepte
                IN  /\ InitialOf(concepte) \in DOMAIN ConceptsByFirstLetter
                    /\ Occurrences(ConceptsByFirstLetter[InitialOf(concepte)],
                                   concepte) = 1
           /\ \A key \in DOMAIN ConceptsByFirstLetter :
                \A k \in 1..Len(ConceptsByFirstLetter[key]) :
                    LET name == ConceptsByFirstLetter[key][k]
                    IN  /\ Occurrences(ConceptsByFirstLetter[key], name) = 1
                        /\ \E i \in 1..Len(AllEntries) : AllEntries[i].Concepte = name
                        /\ InitialOf(name) = key

\* C16 happens: two entries of one concept and an entry of a concept with an
\* accented initial have been loaded; the letter A lists the two names.
C16_Witness ==
    /\ Serving
    /\ Len(AllEntries) = 3
    /\ Cardinality({i \in 1..3 : AllEntries[i].Concepte = ConceptAB}) = 2
    /\ <<"A">> \in DOMAIN ConceptsByFirstLetter
    /\ Len(ConceptsByFirstLetter[<<"A">>]) = 2
    /\ Contains(ConceptsByFirstLetter[<<"A">>], ConceptAgraveB)

\* C17: after a successful load every list of the stored index is in
\* non-decreasing collation order, and a letter page shows the stored list.
C17_LetterListsSorted ==
    Serving
        => /\ \A key \in DOMAIN ConceptsByFirstLetter :
                \A i, j \in 1..Len(ConceptsByFirstLetter[key]) :
                    i < j => CompareString(ConceptsByFirstLetter[key][i],
                                           ConceptsByFirstLetter[key][j]) <= 0
           /\ (call.op = "letterHandler" /\ ret.status = 200)
                 => ret.concepts = ConceptsByFirstLetter[call.letter]

\* C17 happens: "ÀB" was met before "A B" in the data file and the stored
\* list of the letter A has "A B" first.
C17_Witness ==
    /\ Serving
    /\ Len(AllEntries) >= 2
    /\ AllEntries[1].Concepte = ConceptAgraveB
    /\ AllEntries[2].Concepte = ConceptAB
    /\ ConceptsByFirstLetter[<<"A">>] = <<ConceptAB, ConceptAgraveB>>

\* C18: the load ends with the three structures filled or with the error
\* value, never in a crash, also for a data file with an entry whose concept
\* name is empty.
C18_LoadIsTotal ==
    /\ pc # "crashed"
    /\ (fn = "main" /\ pc = "halted") => source.kind # "ok"
    /\ Serving => /\ source.kind = "ok"
                  /\ AllEntries = source.entries
                  /\ Cardinality(PhrasesMap) <= Len(AllEntries)
                  /\ AllEntries # <<>> => PhrasesMap # {} /\ DOMAIN ConceptsByFirstLetter # {}

\* C19: requests are served only after a load that returned nil and left a
\* complete and non-empty corpus; after a failed load the process has halted
\* and no handler runs.
C19_ServesOnlyLoadedCorpus ==
    fn = "main"
        => /\ (pc = "serving" \/ call # NoCall)
                 => /\ pc = "serving"
                    /\ source.kind = "ok"
                    /\ AllEntries = source.entries
                    /\ AllEntries # <<>>
           /\ (source.kind # "ok" /\ pc # "boot") => pc = "halted" /\ call = NoCall

\* C20 as stated: after the load the set of phrase keys is the set of the
\* stored normalized titles (TitleNormalizedWpc) of the entries.
C20_PhraseKeysAreNormalizedTitles ==
    Serving
        => PhrasesMap = {AllEntries[i].TitleNormalizedWpc : i \in 1..Len(AllEntries)}

\* C20: after the load the set of phrase keys is the set of the titles of the
\* entries with their bracketed content removed, letter case and accents
\* kept, and phraseExists finds the title of every entry.
C20_PhraseKeysAreStrippedTitles ==
    Serving
        => /\ PhrasesMap = {removeParenthesesContent(AllEntries[i].Title) :
                              i \in 1..Len(AllEntries)}
           /\ \A i \in 1..Len(AllEntries) : phraseExists(AllEntries[i].Title)

\* C20 happens: "Art" and "pop (a)" have been loaded; the keys are "Art" and
\* "pop", and "art" is no key.
C20_Witness ==
    /\ Serving
    /\ Len(AllEntries) = 2
    /\ AllEntries[1].Title = <<"A", "r", "t">>
    /\ AllEntries[2].Title = <<"p", "o", "p", " ", "(", "a", ")">>
    /\ PhrasesMap = {<<"A", "r", "t">>, Pop}
    /\ AllEntries[1].TitleNormalizedWpc = <<"a", "r", "t">>

\* C21: after a successful load the stored normalized titles of every entry
\* are the ones computed from its title: TitleNormalizedWp is
\* normalizeForSearch of the title and TitleNormalizedWpc is
\* normalizeForSearch of the title without its bracketed content; a data
\* file where they differ is not served.
C21_StoredFieldsAreComputed ==
    Serving
        => \A i \in 1..Len(AllEntries) :
              /\ AllEntries[i].TitleNormalizedWp
                    = normalizeForSearch(AllEntries[i].Title)
              /\ AllEntries[i].TitleNormalizedWpc
                    = normalizeForSearch(removeParenthesesContent(AllEntries[i].Title))

(***************************************************************************)
(* Requests served at once: net/http runs each handler in a goroutine of   *)
(* its own; the steps of the handlers interleave over the loaded           *)
(* structures.                                                             *)
(***************************************************************************)
DefaultPageSize == 10

Workers == 1..MaxWorkers

Idle == [at |-> "idle"]

\* Data files of two entries of the concept "A B".
WorkerSources ==
    {[kind |-> "ok", entries |-> c] :
        c \in {d \in LoadedOfLen(2) : \A i \in 1..2 : d[i].Concepte = ConceptAB}}

\* A search, a concept page, a letter page and a look-up of a phrase.
WorkerRequests ==
    {[op |-> "getEntries", normalizedQuery |-> Pop, searchMode |-> m, page |-> 1] :
        m \in {"", SearchModeAcabaEn}}
    \cup {[op |-> "conceptHandler", concept |-> <<"a", "_", "b">>],
          [op |-> "letterHandler", letter |-> <<"A">>],
          [op |-> "phraseExists", phrase |-> <<"p", "o", "p", " ", "(", "a", ")">>]}

\* Variant in which the slice a handler sorts shares the array of the corpus.
CorpusAfterSortShared(corpus, sorted) ==
    sorted \o SubSeq(corpus, Len(sorted) + 1, Len(corpus))

\* The corpus after a handler has sorted the slice it built: getEntries and
\* getEntriesByConceptSlug append copies of the entries to a nil slice, so
\* the sort moves nothing in AllEntries.
CorpusAfterSort(corpus, sorted) == corpus

\* A request arrives at a worker.
Accept(w, request) ==
    /\ fn = "workers"
    /\ requests[w] = Idle
    /\ requests' = [requests EXCEPT ![w] = [at |-> "scan", request |-> request]]
    /\ UNCHANGED <<AllEntries, call, ret, fn, applied, x0, x1, x2>>
    /\ UNCHANGED loaded

\* The loop over AllEntries of getEntries or getEntriesByConceptSlug, or the
\* read of the index by letterHandler or phraseExists.
Scan(w) ==
    /\ fn = "workers"
    /\ requests[w].at = "scan"
    /\ LET request == requests[w].request
       IN  requests' = [requests EXCEPT ![w] =
             CASE request.op = "getEntries" ->
                    [at |-> "sort", request |-> request,
                     results |-> FilterEntries(AllEntries, request.normalizedQuery,
                                               request.searchMode)]
               [] request.op = "conceptHandler" ->
                    LET records == getEntriesByConceptSlug(request.concept)
                    IN  IF Len(records) = 0
                        THEN [at |-> "done", request |-> request,
                              response |-> [status |-> 404]]
                        ELSE [at |-> "sort", request |-> request, results |-> records]
               [] request.op = "letterHandler" ->
                    [at |-> "done", request |-> request,
                     response |-> MapGet(ConceptsByFirstLetter, request.letter)]
               [] request.op = "phraseExists" ->
                    [at |-> "done", request |-> request,
                     response |-> phraseExists(request.phrase)]]
    /\ UNCHANGED <<AllEntries, call, ret, fn, applied, x0, x1, x2>>
    /\ UNCHANGED loaded

\* slices.SortFunc on the slice of the handler, and what the handler makes
\* of the sorted slice.
Sort(w) ==
    /\ fn = "workers"
    /\ requests[w].at = "sort"
    /\ LET request == requests[w].request
           results == requests[w].results
       IN  \E sorted \in IF request.op = "getEntries"
                         THEN SortOutcomes(results, request.normalizedQuery,
                                           request.searchMode)
                         ELSE ConceptSortOutcomes(results) :
              /\ AllEntries' = CorpusAfterSort(AllEntries, sorted)
              /\ requests' = [requests EXCEPT ![w] =
                   [at |-> "done", request |-> request,
                    response |-> IF request.op = "getEntries"
                                 THEN Paginate(sorted, request.page, DefaultPageSize)
                                 ELSE [status |-> 200, entries |-> sorted]]]
    /\ UNCHANGED <<call, ret, fn, applied, x0, x1, x2>>
    /\ UNCHANGED loaded

\* The response is written and the worker is free again.
Reply(w) ==
    /\ fn = "workers"
    /\ requests[w].at = "done"
    /\ requests' = [requests EXCEPT ![w] = Idle]
    /\ UNCHANGED <<AllEntries, call, ret, fn, applied, x0, x1, x2>>
    /\ UNCHANGED loaded

\* The process after a load that returned nil, no request in progress.
InitWorkers ==
    /\ source \in WorkerSources
    /\ pc = "serving"
    /\ \E r \in loadDataFromFile(source) :
          /\ AllEntries = r.AllEntries
          /\ PhrasesMap = r.PhrasesMap
          /\ ConceptsByFirstLetter = r.ConceptsByFirstLetter
    /\ requests = [w \in Workers |-> Idle]
    /\ call = NoCall
    /\ ret = NoCall
    /\ fn = "workers"
    /\ applied = 0
    /\ x0 = <<>>
    /\ x1 = <<>>
    /\ x2 = <<>>

NextWorkers ==
    \E w \in Workers :
        \/ \E request \in WorkerRequests : Accept(w, request)
        \/ Scan(w)
        \/ Sort(w)
        \/ Reply(w)

SpecWorkers == InitWorkers /\ [][NextWorkers]_vars

\* The responses a request can get when it is served alone on the corpus of
\* the data file.
ServedAlone(request) ==
    LET built == LoadLoop(source.entries, {}, <<>>)
    IN  CASE request.op = "getEntries" ->
               {Paginate(sorted, request.page, DefaultPageSize) :
                  sorted \in SortOutcomes(
                               FilterEntries(source.entries, request.normalizedQuery,
                                             request.searchMode),
                               request.normalizedQuery, request.searchMode)}
          [] request.op = "conceptHandler" ->
               LET target == ReplaceAll(request.concept, <<"_">>, <<" ">>)
                   records == SelectSeq(source.entries,
                                        LAMBDA e : EqualFold(e.Concepte, target))
               IN  IF records = <<>> THEN {[status |-> 404]}
                   ELSE {[status |-> 200, entries |-> sorted] :
                           sorted \in ConceptSortOutcomes(records)}
          [] request.op = "letterHandler" ->
               {MapGet(index, request.letter) :
                  index \in SortIndexOutcomes(built.ConceptsByFirstLetter)}
          [] request.op = "phraseExists" ->
               {removeParenthesesContent(request.phrase) \in built.PhrasesMap}

\* C22: while requests are served the corpus, the phrase set and the letter
\* index stay as the load left them, and whatever the interleaving of the
\* handlers, the response of each request is one it gets when served alone.
C22_HandlersOnlyRead ==
    fn = "workers"
        => /\ AllEntries = source.entries
           /\ PhrasesMap = LoadLoop(source.entries, {}, <<>>).PhrasesMap
           /\ ConceptsByFirstLetter
                 \in SortIndexOutcomes(
                       LoadLoop(source.entries, {}, <<>>).ConceptsByFirstLetter)
           /\ \A w \in Workers :
                 requests[w].at = "done"
                     => requests[w].response \in ServedAlone(requests[w].request)

\* C22 happens: a concept page has been sorted into another order than the
\* corpus has while another request is between its scan and its sort.
C22_Witness ==
    /\ fn = "workers"
    /\ \E v, w \in Workers :
          /\ requests[v].at = "done"
          /\ requests[v].request.op = "conceptHandler"
          /\ requests[v].response.entries # AllEntries
          /\ requests[w].at = "sort"

(***************************************************************************)
(* The search page: searchHandler.                                         *)
(***************************************************************************)
DigitValue(c) ==
    CASE c = "0" -> 0 [] c = "1" -> 1 [] c = "2" -> 2 [] c = "3" -> 3
      [] c = "4" -> 4 [] c = "5" -> 5 [] c = "6" -> 6 [] c = "7" -> 7
      [] c = "8" -> 8 [] c = "9" -> 9

IsDigit(c) == c \in {"0", "1", "2", "3", "4", "5", "6", "7", "8", "9"}

RECURSIVE DecimalValue(_)
\* The number written by a string of digits.
DecimalValue(digits) ==
    IF digits = <<>> THEN 0
    ELSE 10 * DecimalValue(SubSeq(digits, 1, Len(digits) - 1))
            + DigitValue(digits[Len(digits)])

\* strconv.Atoi: an optional sign and then one digit or more; a syntax error
\* for anything else, a range error for a number that does not fit an int.
Atoi(str) ==
    LET signed == str # <<>> /\ str[1] \in {"+", "-"}
        digits == IF signed THEN Tail(str) ELSE str
        value == DecimalValue(digits)
    IN  IF digits = <<>> \/ \E i \in 1..Len(digits) : ~IsDigit(digits[i])
        THEN [err |-> "syntax", value |-> 0]
        ELSE IF str[1] = "-"
        THEN IF value > MaxInt + 1 THEN [err |-> "range", value |-> -MaxInt - 1]
             ELSE [err |-> "nil", value |-> -value]
        ELSE IF value > MaxInt THEN [err |-> "range", value |-> MaxInt]
             ELSE [err |-> "nil", value |-> value]

\* Variant of the page number that takes every parsed number.
PageNumberUnchecked(pageNumberParam) ==
    IF Atoi(pageNumberParam).err = "nil" THEN Atoi(pageNumberParam).value ELSE 1

\* pageNumber of searchHandler: 1 unless the parameter parses to a positive
\* number.
PageNumber(pageNumberParam) ==
    IF Atoi(pageNumberParam).err = "nil" /\ Atoi(pageNumberParam).value > 0
    THEN Atoi(pageNumberParam).value
    ELSE 1

\* Values of the parameter frase: absent, a phrase, a phrase in upper case
\* with spaces around it, a phrase no entry has, and strings of which the
\* normalizer leaves nothing.
Frases ==
    { <<>>, Pop, <<" ", "A", " ">>, <<"d">>, <<"(", ")">>, <<" ", "-", ",">> }

\* Values of the parameter mode.
ModeParams == {"", SearchModeCoincident, "Altres"}

\* Values of the parameter pagina: absent, no number, zero, negative, in
\* range, signed, and too long for an int.
PageParams ==
    { <<>>, <<"x">>, <<"0">>, <<"-", "1">>, <<"1">>, <<"2">>, <<"3">>,
      <<"+", "2">>, <<"9", "9", "9">> }

\* The fields of PageData set for a page without search.
Homepage(query, pageNumber) ==
    [outcome |-> "ok", invoked |-> FALSE, SearchQuery |-> query,
     CurrentPage |-> pageNumber, entries |-> <<>>,
     TotalPages |-> 0, PreviousPage |-> 0, NextPage |-> 0]

\* One request for /. ret.invoked tells whether getEntries was called and
\* ret.args with what; a panic of getEntries ends the request.
searchHandler(query, searchMode, pageNumberParam) ==
    /\ fn = "searchHandler"
    /\ pc = "serving"
    /\ call = NoCall
    /\ call' = [op |-> "searchHandler", frase |-> query, mode |-> searchMode,
                pagina |-> pageNumberParam]
    /\ LET pageNumber == PageNumber(pageNumberParam)
           normalizedQuery == normalizeForSearch(query)
           args == [normalizedQuery |-> normalizedQuery, searchMode |-> searchMode,
                    page |-> pageNumber, pageSize |-> DefaultPageSize]
       IN  IF normalizedQuery # <<>>
           THEN \E sorted \in SortOutcomes(
                                FilterEntries(AllEntries, normalizedQuery, searchMode),
                                normalizedQuery, searchMode) :
                   LET got == Paginate(sorted, pageNumber, DefaultPageSize)
                       TotalPages == WrapInt(got.total + DefaultPageSize - 1)
                                        \div DefaultPageSize
                   IN  IF got.outcome = "panic"
                       THEN ret' = [outcome |-> "panic", invoked |-> TRUE, args |-> args]
                       ELSE ret' = [Homepage(query, pageNumber) EXCEPT
                                      !.invoked = TRUE,
                                      !.entries = got.entries,
                                      !.TotalPages = TotalPages,
                                      !.PreviousPage =
                                          IF pageNumber > 1 THEN pageNumber - 1 ELSE 0,
                                      !.NextPage =
                                          IF pageNumber < TotalPages
                                          THEN WrapInt(pageNumber + 1) ELSE 0]
                                   @@ [args |-> args, total |-> got.total]
           ELSE ret' = Homepage(query, pageNumber)
    /\ UNCHANGED <<AllEntries, fn, applied, x0, x1, x2>>
    /\ UNCHANGED loaded
    /\ UNCHANGED requests

\* The response has been written; the next request can be served.
SearchPageDone ==
    /\ fn = "searchHandler"
    /\ call # NoCall
    /\ call' = NoCall
    /\ ret' = NoCall
    /\ UNCHANGED <<AllEntries, fn, applied, x0, x1, x2>>
    /\ UNCHANGED loaded
    /\ UNCHANGED requests

\* The process after a load that returned nil, on a corpus of the pool.
InitSearchPage ==
    /\ source \in {[kind |-> "ok", entries |-> c] : c \in Corpora}
    /\ pc = "serving"
    /\ \E r \in loadDataFromFile(source) :
          /\ AllEntries = r.AllEntries
          /\ PhrasesMap = r.PhrasesMap
          /\ ConceptsByFirstLetter = r.ConceptsByFirstLetter
    /\ requests = <<>>
    /\ call = NoCall
    /\ ret = NoCall
    /\ fn = "searchHandler"
    /\ applied = 0
    /\ x0 = <<>>
    /\ x1 = <<>>
    /\ x2 = <<>>

NextSearchPage ==
    \/ \E query \in Frases, searchMode \in ModeParams, pageNumberParam \in PageParams :
          searchHandler(query, searchMode, pageNumberParam)
    \/ SearchPageDone

SpecSearchPage == InitSearchPage /\ [][NextSearchPage]_vars

IsSearchPage == call.op = "searchHandler"

\* C23: for every request searchHandler calls getEntries exactly when the
\* normalized query is not empty, and then with page >= 1 and pageSize >= 1;
\* a request whose query normalizes to the empty string gets the homepage.
C23_HandlerMeetsPreconditions ==
    IsSearchPage
        => /\ ret.invoked <=> normalizeForSearch(call.frase) # <<>>
           /\ ret.invoked => /\ ret.args.normalizedQuery # <<>>
                             /\ ret.args.page >= 1
                             /\ ret.args.pageSize >= 1
           /\ ~ret.invoked => /\ ret.outcome = "ok"
                              /\ ret.entries = <<>>
                              /\ ret.TotalPages = 0

\* C23 happens: a search for "pop" with the page parameter "-1" has called
\* getEntries with page 1.
C23_Witness ==
    /\ IsSearchPage
    /\ call.frase = Pop
    /\ call.pagina = <<"-", "1">>
    /\ ret.invoked
    /\ ret.args.page = 1
    /\ ret.outcome = "ok"

\* C29: the page links of every search page are valid: TotalPages is
\* total / DefaultPageSize rounded up, NextPage is set only if the page
\* after the current one is no later than TotalPages, and PreviousPage is
\* set only if it is one of the pages 1..TotalPages, also for a request
\* beyond the last page.
C29_PageLinksAreValid ==
    (IsSearchPage /\ ret.invoked /\ ret.outcome = "ok")
        => /\ ret.TotalPages * DefaultPageSize >= ret.total
           /\ (ret.TotalPages - 1) * DefaultPageSize < ret.total
           /\ ret.NextPage # 0 => ret.CurrentPage + 1 <= ret.TotalPages
           /\ ret.PreviousPage # 0 => ret.PreviousPage \in 1..ret.TotalPages

(***************************************************************************)
(* Ranking outside Contains mode, and the pages of one ranked list.        *)
(***************************************************************************)
\* C25: in the modes "Comenca per", "Acaba en" and "Coincident" the ranked
\* list is in the collation order of TitleNormalizedWpc alone: no entry is
\* listed before an entry that collates before it, exact match or not.
C25_OtherModesCollateOnly ==
    (IsGetEntries /\ call.searchMode \in {SearchModeComencaPer, SearchModeAcabaEn,
                                          SearchModeCoincident})
        => \A i, j \in 1..Len(ret.ranked) :
              i < j => CompareString(ret.ranked[i].TitleNormalizedWpc,
                                     ret.ranked[j].TitleNormalizedWpc) <= 0

\* C25 happens: in "Acaba en" mode an exact match is listed after a match
\* that is not exact and collates before it.
C25_Witness ==
    /\ IsGetEntries
    /\ call.searchMode = SearchModeAcabaEn
    /\ Len(ret.ranked) >= 2
    /\ ~IsExact(ret.ranked[1], call.normalizedQuery)
    /\ IsExact(ret.ranked[2], call.normalizedQuery)
    /\ CompareString(ret.ranked[1].TitleNormalizedWpc,
                     ret.ranked[2].TitleNormalizedWpc) = -1

\* ceil(total / pageSize)
PageCount(total, pageSize) == (total + pageSize - 1) \div pageSize

RECURSIVE ConcatPages(_, _, _)
\* The entries of pages 1..n of one ranked list, one page after the other.
ConcatPages(ranked, n, pageSize) ==
    IF n = 0 THEN <<>>
    ELSE ConcatPages(ranked, n - 1, pageSize) \o Paginate(ranked, n, pageSize).entries

\* C27: for a non-empty query, the pages 1..ceil(total/pageSize) of the
\* call's ranked list are returned without panic, every page before the last
\* has pageSize entries, the page of the call is one of them, and their
\* concatenation is the ranked list, which holds every matching entry of
\* the corpus exactly once.
C27_PagesPartitionRanked ==
    (IsGetEntries /\ call.normalizedQuery # <<>>)
        => LET n == PageCount(Len(ret.ranked), call.pageSize)
               all == ConcatPages(ret.ranked, n, call.pageSize)
           IN  /\ \A p \in 1..n :
                     /\ Paginate(ret.ranked, p, call.pageSize).outcome = "ok"
                     /\ p < n => Len(Paginate(ret.ranked, p, call.pageSize).entries)
                                    = call.pageSize
               /\ call.page \in 1..n
                     => Returned(ret) = Paginate(ret.ranked, call.page, call.pageSize)
               /\ all = ret.ranked
               /\ Len(all) = TrueTotal
               /\ \A i \in 1..Len(AllEntries) :
                     Match(AllEntries[i], call.normalizedQuery, call.searchMode)
                        => Cardinality({k \in 1..Len(all) : all[k] = AllEntries[i]}) = 1

\* C27 happens: the second page of one entry of a list of two matches.
C27_Witness ==
    /\ IsGetEntries
    /\ call.normalizedQuery # <<>>
    /\ call.pageSize = 1
    /\ call.page = 2
    /\ Len(ret.ranked) = 2
    /\ ret.entries = <<ret.ranked[2]>>

(***************************************************************************)
(* Concept links and letter pages.                                         *)
(***************************************************************************)
IsLetterPage == call.op = "letterHandler" /\ ret.status = 200

\* C28: every link of a letter page leads to the entries of its concept:
\* getEntriesByConceptSlug of the link's slug returns every entry of the
\* corpus whose concept is the linked name, which is at least one entry.
C28_SlugRoundTrip ==
    IsLetterPage
        => \A k \in 1..Len(ret.concepts) :
              LET records == getEntriesByConceptSlug(ret.links[k])
              IN  /\ Len(records) > 0
                  /\ \A i \in 1..Len(AllEntries) :
                        AllEntries[i].Concepte = ret.concepts[k]
                           => Contains(records, AllEntries[i])

\* A request for the letter page is accepted by the first test of
\* letterHandler.
LetterAccepted(letter) == ByteLen(letter) = 1 /\ letter[1] \in UpperCaseLetters

\* C30: after a successful load the key of every concept whose name begins
\* with a letter is one letter of 'A'..'Z', the concept is in the list of
\* exactly one key, a key letterHandler accepts; and letterHandler answers
\* 404 exactly for a letter outside 'A'..'Z' or without concepts.
C30_EveryConceptIsBrowsable ==
    /\ Serving
          => \A i \in 1..Len(AllEntries) :
                LET concepte == AllEntries[i].Concepte
                IN  IsLetterOrMark(concepte[1])
                       => /\ Len(LetterKey(concepte)) = 1
                          /\ LetterKey(concepte)[1] \in UpperCaseLetters
                          /\ Cardinality({key \in DOMAIN ConceptsByFirstLetter :
                                Contains(ConceptsByFirstLetter[key], concepte)}) = 1
                          /\ \A key \in DOMAIN ConceptsByFirstLetter :
                                Contains(ConceptsByFirstLetter[key], concepte)
                                   => LetterAccepted(key)
    /\ call.op = "letterHandler"
          => (ret.status = 404
                <=> \/ ~LetterAccepted(call.letter)
                    \/ MapGet(ConceptsByFirstLetter, call.letter) = <<>>)

(***************************************************************************)
(* Phrase renderer: smartSplit and renderBoldPhrases. The HTML is a        *)
(* sequence of runes and of tags; a tag is one element.                    *)
(***************************************************************************)
RECURSIVE Split(_, _)
\* strings.Split on a separator of one rune.
Split(s, sep) ==
    LET hits == {i \in 1..Len(s) : s[i] = sep}
    IN  IF hits = {} THEN <<s>>
        ELSE LET i == CHOOSE h \in hits : \A g \in hits : h <= g
             IN  <<SubSeq(s, 1, i - 1)>> \o Split(Drop(s, i), sep)

\* strings.Contains
ContainsString(s, sub) ==
    \E i \in 0..(Len(s) - Len(sub)) : SubSeq(s, i + 1, i + Len(sub)) = sub

placeholderUnusedChar == "|"

RECURSIVE ProtectSeparators(_, _, _)
\* The first loop of smartSplit from parenthesesDepth on: a separator inside
\* parentheses is written as the placeholder.
ProtectSeparators(input, separator, parenthesesDepth) ==
    IF input = <<>> THEN <<>>
    ELSE LET char == Head(input)
         IN  IF char = "("
             THEN <<char>> \o ProtectSeparators(Tail(input), separator, parenthesesDepth + 1)
             ELSE IF char = ")"
             THEN <<char>> \o ProtectSeparators(Tail(input), separator, parenthesesDepth - 1)
             ELSE IF char = separator /\ parenthesesDepth > 0
             THEN <<placeholderUnusedChar>>
                     \o ProtectSeparators(Tail(input), separator, parenthesesDepth)
             ELSE <<char>> \o ProtectSeparators(Tail(input), separator, parenthesesDepth)

smartSplit(input, separator) ==
    LET parts == Split(ProtectSeparators(input, separator, 0), separator)
    IN  [i \in 1..Len(parts) |->
            ReplaceAll(TrimSpace(parts[i]), <<placeholderUnusedChar>>, <<separator>>)]

\* url.QueryEscape on the runes of the model: a space becomes "+", a rune
\* that is no unreserved ASCII character becomes its percent-encoded bytes.
QueryEscapeRune(c) ==
    CASE c = " " -> "+"
      [] c = "(" -> "%28"
      [] c = ")" -> "%29"
      [] c = "," -> "%2C"
      [] c = ";" -> "%3B"
      [] c = "'" -> "%27"
      [] c = "|" -> "%7C"
      [] c = "agrave" -> "%C3%A0"
      [] c = "oacute" -> "%C3%B3"
      [] c = "uacute" -> "%C3%BA"
      [] OTHER -> c

QueryEscape(s) == [i \in 1..Len(s) |-> QueryEscapeRune(s[i])]

\* The tags renderBoldPhrases writes.
StrongOpen == "<strong>"

StrongClose == "</strong>"

AnchorOpen == "<a href=\"/?mode=Conte&frase="

AnchorRel == "\" rel=\"nofollow\">"

AnchorClose == "</a>"

SpanOpen == "<span class=\"bg-danger text-white py-1\">"

SpanClose == "</span>"

\* Phrases that are neither split nor linked.
RenderBoldPhrasesWhitelist ==
    { <<"J", "e", "s", "uacute", "s", ",", " ", "M", "a", "r", "i", "a",
        " ", "i", " ", "J", "o", "s", "e", "p", " ", "(", "v", ".", "f",
        ".", ")">>,
      <<"e", "n", " ", "P", "e", "r", "e", ",", " ", "e", "n", " ", "P",
        "a", "u", " ", "i", " ", "e", "n", " ", "B", "e", "r", "e", "n",
        "g", "u", "e", "r", "a", " ", "(", "v", ".", "f", ".", ")">>,
      <<"c", "oacute", "r", "r", "e", "r", " ", "l", "a", " ", "S", "e",
        "c", "a", ",", " ", "l", "a", " ", "M", "e", "c", "a", " ", "i",
        " ", "l", "a", " ", "v", "a", "l", "l", " ", "d", "'", "A", "n",
        "d", "o", "r", "r", "a", " ", "(", "v", ".", "f", ".", ")">> }

\* Variant of the decision that links formal variants too.
ShouldCreateLinkAlways(phrase, createLink) == createLink

\* shouldCreateLink := createLink && !isFormalVariant
ShouldCreateLink(phrase, createLink) ==
    LET isFormalVariant ==
            ContainsString(phrase, <<" ", "(", "v", ".", "f", ".", ")">>)
    IN  createLink /\ ~isFormalVariant

\* The body of the loop of renderBoldPhrases for one phrase: htmlString
\* after the four replacements.
RenderPhrase(phrase, createLink) ==
    LET html ==
            IF ShouldCreateLink(phrase, createLink)
            THEN IF phraseExists(phrase)
                 THEN <<AnchorOpen>> \o QueryEscape(removeParenthesesContent(phrase))
                         \o <<AnchorRel, StrongOpen>> \o phrase
                         \o <<StrongClose, AnchorClose>>
                 ELSE <<SpanOpen, StrongOpen>> \o phrase \o <<StrongClose, SpanClose>>
            ELSE <<StrongOpen>> \o phrase \o <<StrongClose>>
        opened == ReplaceAll(html, <<"(">>, <<StrongClose, "(">>)
        closed == ReplaceAll(opened, <<")">>, <<")", StrongOpen>>)
        spaced == ReplaceAll(closed, <<StrongOpen, " ", StrongClose>>, <<" ">>)
    IN  ReplaceAll(spaced, <<StrongOpen, StrongClose>>, <<>>)

renderBoldPhrases(input, createLink) ==
    IF input = <<>> THEN <<>>
    ELSE LET isSinglePhrase ==
                 phraseExists(input) \/ input \in RenderBoldPhrasesWhitelist
             separator ==
                 IF isSinglePhrase THEN placeholderUnusedChar
                 ELSE IF ContainsString(input, <<";">>) THEN ";"
                 ELSE ","
             phraseList == smartSplit(input, separator)
         IN  IF isSinglePhrase
             THEN RenderPhrase(phraseList[1], createLink)
             ELSE Join([i \in 1..Len(phraseList) |->
                           RenderPhrase(phraseList[i], createLink)],
                       <<separator, " ">>)

\* The runes of the generated phrases and their longest length.
RenderAlphabet == {"a", "(", ")", ",", " "}

MaxRenderLen == 4

\* "pop (v.f.)"
PopFormalVariant == Pop \o <<" ", "(", "v", ".", "f", ".", ")">>

\* Phrases of the fields that are rendered: every short string over the
\* alphabet, a formal variant alone and in a list, a list with semicolons
\* and a phrase with a parenthesis in a list. All are shorter than the
\* phrases of the whitelist.
RenderInputs ==
    SeqsUpTo(RenderAlphabet, MaxRenderLen)
    \cup { PopFormalVariant,
           <<"a", ",", " ">> \o PopFormalVariant,
           Pop \o <<";", " ", "a", ",", " ", "b">>,
           Pop \o <<" ", "(", "a", ",", " ", "b", ")", ",", " ", "a">> }

\* The corpora the phrases are rendered on.
RenderCorpora ==
    { <<>>,
      <<MkEntry(Pop, <<"A">>), MkEntry(<<"a">>, <<"B">>)>>,
      <<MkEntry(Pop, <<"A">>), MkEntry(<<"a", ",", " ", "b">>, <<"A">>)>>,
      <<MkEntry(<<"a", " ", "(", "a", ")">>, <<"A">>)>> }

\* One call renderBoldPhrases(input, createLink) while a page is rendered.
RenderCall(input, createLink) ==
    /\ fn = "renderBoldPhrases"
    /\ call = NoCall
    /\ call' = [op |-> "renderBoldPhrases", input |-> input, createLink |-> createLink]
    /\ ret' = [html |-> renderBoldPhrases(input, createLink)]
    /\ UNCHANGED <<AllEntries, fn, applied, x0, x1, x2>>
    /\ UNCHANGED loaded
    /\ UNCHANGED requests

\* The HTML has been written to the page; the next field can be rendered.
RenderDone ==
    /\ fn = "renderBoldPhrases"
    /\ call # NoCall
    /\ call' = NoCall
    /\ ret' = NoCall
    /\ UNCHANGED <<AllEntries, fn, applied, x0, x1, x2>>
    /\ UNCHANGED loaded
    /\ UNCHANGED requests

\* The process after a load that returned nil, on a corpus to render on.
InitRender ==
    /\ source \in {[kind |-> "ok", entries |-> c] : c \in RenderCorpora}
    /\ pc = "serving"
    /\ \E r \in loadDataFromFile(source) :
          /\ AllEntries = r.AllEntries
          /\ PhrasesMap = r.PhrasesMap
          /\ ConceptsByFirstLetter = r.ConceptsByFirstLetter
    /\ requests = <<>>
    /\ call = NoCall
    /\ ret = NoCall
    /\ fn = "renderBoldPhrases"
    /\ applied = 0
    /\ x0 = <<>>
    /\ x1 = <<>>
    /\ x2 = <<>>

NextRender ==
    \/ \E input \in RenderInputs, createLink \in BOOLEAN : RenderCall(input, createLink)
    \/ RenderDone

SpecRender == InitRender /\ [][NextRender]_vars

IsRender == call.op = "renderBoldPhrases"

\* The tags of the HTML.
Tags == {StrongOpen, StrongClose, AnchorOpen, AnchorRel, AnchorClose,
         SpanOpen, SpanClose}

\* The places of the HTML where a hyperlink opens.
LinkStarts(html) == {k \in 1..Len(html) : html[k] = AnchorOpen}

\* The first place after k that holds tag.
NextTag(html, k, tag) ==
    CHOOSE m \in (k + 1)..Len(html) :
        /\ html[m] = tag
        /\ \A n \in (k + 1)..(m - 1) : html[n] # tag

\* The query value of the hyperlink that opens at k, still escaped.
LinkQuery(html, k) == SubSeq(html, k + 1, NextTag(html, k, AnchorRel) - 1)

\* The text of the hyperlink that opens at k: what stands between the
\* opening and the closing tag, the tags left out.
LinkText(html, k) ==
    SelectSeq(SubSeq(html, NextTag(html, k, AnchorRel) + 1,
                     NextTag(html, k, AnchorClose) - 1),
              LAMBDA c : c \notin Tags)

\* C24: a hyperlink is in the HTML only if createLink is set; its text is
\* no formal variant, the text without its parenthesized parts is a key of
\* PhrasesMap, and that key is the query of the link.
C24_LinksOnlyExistingPhrases ==
    IsRender
        => \A k \in LinkStarts(ret.html) :
              /\ call.createLink
              /\ ~ContainsString(LinkText(ret.html, k),
                                 <<" ", "(", "v", ".", "f", ".", ")">>)
              /\ removeParenthesesContent(LinkText(ret.html, k)) \in PhrasesMap
              /\ LinkQuery(ret.html, k)
                    = QueryEscape(removeParenthesesContent(LinkText(ret.html, k)))

\* C24 happens: of a list of two phrases and a formal variant, rendered with
\* links, the phrase that has an entry is linked and the two others are not.
C24_Witness ==
    /\ IsRender
    /\ call.createLink
    /\ call.input = <<"a", ",", " ">> \o PopFormalVariant
    /\ Cardinality(LinkStarts(ret.html)) = 1
    /\ ret.html[1] = AnchorOpen
    /\ LinkText(ret.html, 1) = <<"a">>
    /\ \E k \in 1..Len(ret.html) : ret.html[k] = StrongOpen /\ k > 5

RECURSIVE Balanced(_, _)
\* The parentheses of s are correctly placed, depth of them being open.
Balanced(s, depth) ==
    IF s = <<>> THEN depth = 0
    ELSE IF Head(s) = "(" THEN Balanced(Tail(s), depth + 1)
    ELSE IF Head(s) = ")" THEN depth > 0 /\ Balanced(Tail(s), depth - 1)
    ELSE Balanced(Tail(s), depth)

RECURSIVE StrongConsistent(_, _)
\* Every </strong> of html closes an open <strong>, no <strong> opens
\* while one is open, and none is open at the end.
StrongConsistent(html, open) ==
    IF html = <<>> THEN ~open
    ELSE IF Head(html) = StrongOpen THEN ~open /\ StrongConsistent(Tail(html), TRUE)
    ELSE IF Head(html) = StrongClose THEN open /\ StrongConsistent(Tail(html), FALSE)
    ELSE StrongConsistent(Tail(html), open)

\* C26: the HTML of an input whose parentheses are correctly placed, nested
\* ones included, has consistent <strong> tags.
C26_BalancedInputConsistentTags ==
    (IsRender /\ Balanced(call.input, 0)) => StrongConsistent(ret.html, FALSE)

================================================================================
